---- MODULE Spec2Model ----
(***************************************************************************)
(* A model of tokiocli's Cli (src/src/lib.rs) driven by the caller loop of *)
(* src/examples/hello.rs.                                                  *)
(*                                                                         *)
(* Strings are sequences of bytes (the UTF-8 encoding a Rust String        *)
(* holds); cursor and every length are byte counts, as in the source.      *)
(* Every read of one input byte is one step: the await on read_u8 is the   *)
(* only suspension point of getaction.                                     *)
(***************************************************************************)
EXTENDS Integers, Sequences, FiniteSets, TLC

VARIABLES
    term,           \* c_lflag of the terminal behind file descriptor 0
    saved_termios,  \* Cli.saved_termios
    do_reset,       \* Cli.do_reset
    cmd,            \* Cli.cmd, as bytes
    cursor,         \* Cli.cursor, a byte index into cmd
    history,        \* Cli.history
    history_idx,    \* Cli.history_idx: None or Some(i)
    pc,             \* where the program is: see PcValues
    action,         \* what the last getaction call returned
    prompted,       \* the last step wrote the prompt to the display
    restores,       \* number of tcsetattr calls made by drop
    restore_err,    \* drop reported "Failed to restore terminal config"
    screen,         \* the terminal's current line and cursor column, followed
                    \* by SpecScreen; blank elsewhere
    nav             \* the input drawn by SpecNav (its key sequence) and by
                    \* SpecPrefix (its candidate list); <<>> elsewhere

vars == <<term, saved_termios, do_reset, cmd, cursor, history, history_idx,
          pc, action, prompted, restores, restore_err, screen, nav>>

cli == <<do_reset, cmd, cursor, history, history_idx>>

(***************************************************************************)
(* Bounds of the model.                                                    *)
(***************************************************************************)
MaxLen == 3
MaxHist == 2
MaxCompleteLen == 7
MaxWords == 3
MaxTokLen == 4

(***************************************************************************)
(* Byte values the source dispatches on.                                   *)
(***************************************************************************)
SOH == 1
STX == 2
TAB == 9
LF == 10
ESC == 27
SPACE == 32
QUOTE == 34
SEL_SUPPR == 51
SEL_UP == 65
SEL_DOWN == 66
SEL_RIGHT == 67
SEL_LEFT == 68
LBRACKET == 91
BACKSLASH == 92
TILDE == 126
DEL == 127

(***************************************************************************)
(* Option<usize>.                                                          *)
(***************************************************************************)
None == <<>>
Some(i) == <<i>>
IsSome(o) == o /= <<>>
Unwrap(o) == o[1]

(***************************************************************************)
(* Action, plus the Err a failed read makes getaction return and the       *)
(* value held before the first call.                                       *)
(***************************************************************************)
NoAction == [kind |-> "None", args |-> <<>>]
Command(args) == [kind |-> "Command", args |-> args]
AutoComplete(args) == [kind |-> "AutoComplete", args |-> args]
ReadErr == [kind |-> "Err", args |-> <<>>]

(***************************************************************************)
(* str primitives, on the UTF-8 bytes.                                     *)
(***************************************************************************)
\* u8 as char, then encoded into the String: one byte below 0x80, two above
Utf8(c) == IF c < 128 THEN <<c>> ELSE <<192 + (c \div 64), 128 + (c % 64)>>

\* str::is_char_boundary
IsCharBoundary(s, i) ==
    \/ i = 0
    \/ i = Len(s)
    \/ i < Len(s) /\ ~(s[i + 1] >= 128 /\ s[i + 1] < 192)

\* bytes of the char that starts with lead byte b (chars up to U+07FF)
CharLen(b) == IF b >= 192 THEN 2 ELSE 1

\* &s[i..]
SliceFrom(s, i) == SubSeq(s, i + 1, Len(s))

\* &s[0..i]
SliceTo(s, i) == SubSeq(s, 1, i)

\* String::insert / insert_str at byte index i
InsertAt(s, i, xs) == SliceTo(s, i) \o xs \o SliceFrom(s, i)

\* String::remove at byte index i: the whole char starting there
RemoveAt(s, i) == SliceTo(s, i) \o SliceFrom(s, i + CharLen(s[i + 1]))

\* s.chars(): each char as its bytes
RECURSIVE Chars(_)
Chars(s) ==
    IF s = <<>> THEN <<>>
    ELSE LET n == IF CharLen(s[1]) <= Len(s) THEN CharLen(s[1]) ELSE Len(s)
         IN  <<SliceTo(s, n)>> \o Chars(SliceFrom(s, n))

(***************************************************************************)
(* Cli::cmd2args, the tokenizer.                                           *)
(***************************************************************************)
\* the scan splitting at a space inside double quotes too
RECURSIVE ScanArgs_splits_in_quotes(_, _, _, _, _)
ScanArgs_splits_in_quotes(cs, args, arg, is_string, is_escaped) ==
    IF cs = <<>> THEN Append(args, arg)
    ELSE LET c == Head(cs)
             rest == Tail(cs)
         IN  IF is_escaped
             THEN ScanArgs_splits_in_quotes(rest, args, arg \o c, is_string, FALSE)
             ELSE IF c = <<BACKSLASH>>
                  THEN ScanArgs_splits_in_quotes(rest, args, arg, is_string, TRUE)
             ELSE IF c = <<QUOTE>>
                  THEN ScanArgs_splits_in_quotes(rest, args, arg, ~is_string, FALSE)
             ELSE IF c = <<SPACE>>
                  THEN ScanArgs_splits_in_quotes(rest, Append(args, arg), <<>>,
                                                 is_string, FALSE)
             ELSE ScanArgs_splits_in_quotes(rest, args, arg \o c, is_string, FALSE)

RECURSIVE ScanArgs(_, _, _, _, _)
ScanArgs(cs, args, arg, is_string, is_escaped) ==
    IF cs = <<>> THEN Append(args, arg)
    ELSE LET c == Head(cs)
             rest == Tail(cs)
         IN  IF is_escaped THEN ScanArgs(rest, args, arg \o c, is_string, FALSE)
             ELSE IF c = <<BACKSLASH>>
                  THEN ScanArgs(rest, args, arg, is_string, TRUE)
             ELSE IF c = <<QUOTE>>
                  THEN ScanArgs(rest, args, arg, ~is_string, FALSE)
             ELSE IF c = <<SPACE>>
                  THEN IF is_string
                       THEN ScanArgs(rest, args, arg \o c, is_string, FALSE)
                       ELSE ScanArgs(rest, Append(args, arg), <<>>, is_string, FALSE)
             ELSE ScanArgs(rest, args, arg \o c, is_string, FALSE)

cmd2args(text) == ScanArgs(Chars(text), <<>>, <<>>, FALSE, FALSE)

(***************************************************************************)
(* What goes to the display: the prompt, and EscSeq as its Display impl    *)
(* formats it.                                                             *)
(***************************************************************************)
\* Cli.prompt, "> "; setprompt is never called by hello.rs
PromptText == <<62, SPACE>>

\* "{}" of a usize
RECURSIVE Decimal(_)
Decimal(n) == IF n < 10 THEN <<48 + n>> ELSE Decimal(n \div 10) \o <<48 + (n % 10)>>

\* EscSeq::Right(n), "\x1B[{}C"
Right(n) == <<ESC, LBRACKET>> \o Decimal(n) \o <<67>>

\* EscSeq::Left(n), "\x1B[{}D"
Left(n) == <<ESC, LBRACKET>> \o Decimal(n) \o <<68>>

\* EscSeq::HorizontalAbs(n), "\x1B[{}G"
HorizontalAbs(n) == <<ESC, LBRACKET>> \o Decimal(n) \o <<71>>

\* EscSeq::EraseInLineAll, "\x1B[2K"
EraseInLineAll == <<ESC, LBRACKET, 50, 75>>

\* Cli::clear_line
clear_line == EraseInLineAll \o HorizontalAbs(0)

\* an eprintln! of a diagnostic: its text, shortened to "?", and the newline
Note == <<63, LF>>

(***************************************************************************)
(* The terminal that receives those bytes: one line of cells and the       *)
(* column of its cursor, counted from 0.  A count of 0 in a cursor move    *)
(* stands for 1, as terminals have it (ECMA-48 default).  Output           *)
(* processing is untouched by Cli::new, so a newline starts the next line  *)
(* at its first column.                                                    *)
(***************************************************************************)
BlankScreen == [line |-> <<>>, col |-> 0]

Blanks(n) == [i \in 1..n |-> SPACE]

\* one byte outside an escape sequence: backspace, newline or a glyph
PutByte(scr, b) ==
    IF b = 8 THEN [scr EXCEPT !.col = IF @ > 0 THEN @ - 1 ELSE 0]
    ELSE IF b = LF THEN BlankScreen
    ELSE [line |-> IF scr.col < Len(scr.line)
                   THEN [scr.line EXCEPT ![scr.col + 1] = b]
                   ELSE scr.line \o Blanks(scr.col - Len(scr.line)) \o <<b>>,
          col |-> scr.col + 1]

\* ESC [ n final: C forward, D backward, G to column n, 2 K erase the line
Csi(scr, n, final) ==
    LET count == IF n = 0 THEN 1 ELSE n
    IN  CASE final = 67 -> [scr EXCEPT !.col = @ + count]
          [] final = 68 -> [scr EXCEPT !.col = IF @ > count THEN @ - count ELSE 0]
          [] final = 71 -> [scr EXCEPT !.col = count - 1]
          [] final = 75 /\ n = 2 -> [scr EXCEPT !.line = <<>>]
          [] OTHER -> scr

\* how many decimal digits bs holds from index i on
RECURSIVE DigitCount(_, _)
DigitCount(bs, i) ==
    IF i <= Len(bs) /\ bs[i] \in 48..57 THEN 1 + DigitCount(bs, i + 1) ELSE 0

RECURSIVE DecimalValue(_)
DecimalValue(ds) ==
    IF ds = <<>> THEN 0
    ELSE 10 * DecimalValue(SubSeq(ds, 1, Len(ds) - 1)) + (ds[Len(ds)] - 48)

\* the screen after the terminal has received bs
RECURSIVE Render(_, _)
Render(scr, bs) ==
    IF bs = <<>> THEN scr
    ELSE IF Len(bs) >= 3 /\ bs[1] = ESC /\ bs[2] = LBRACKET
         THEN LET k == DigitCount(bs, 3)
              IN  Render(Csi(scr, DecimalValue(SubSeq(bs, 3, 2 + k)), bs[3 + k]),
                         SubSeq(bs, 4 + k, Len(bs)))
    ELSE Render(PutByte(scr, Head(bs)), Tail(bs))

(***************************************************************************)
(* What one editing operation leaves behind: the fields it may write,      *)
(* whether it wrote the prompt, and whether it panicked on the way (a      *)
(* slice or index outside the string, or inside a char).                   *)
(***************************************************************************)
Edit(c, cur, idx, pr) ==
    [cmd |-> c, cursor |-> cur, history_idx |-> idx, prompted |-> pr,
     panicked |-> FALSE, out |-> <<>>]

Panic(c, cur, idx) ==
    [cmd |-> c, cursor |-> cur, history_idx |-> idx, prompted |-> FALSE,
     panicked |-> TRUE, out |-> <<>>]

\* the operation e having written bytes to stderr
Emit(e, bytes) == [e EXCEPT !.out = bytes]

Same == Edit(cmd, cursor, history_idx, FALSE)

\* reset leaving the history position where it was
reset_keeps_idx == Edit(<<>>, 0, history_idx, TRUE)

\* Cli::reset
reset == Emit(Edit(<<>>, 0, None, TRUE), PromptText)

\* history_restore emptying the line when the position is None
history_restore_clears(idx) ==
    IF ~IsSome(idx) THEN Edit(<<>>, 0, idx, FALSE)
    ELSE IF Unwrap(idx) >= Len(history) THEN Panic(cmd, cursor, idx)
    ELSE LET word == history[Unwrap(idx) + 1]
         IN  Edit(word, Len(word), idx, TRUE)

\* Cli::history_restore, with self.history_idx already set to idx
history_restore(idx) ==
    IF ~IsSome(idx) THEN Edit(cmd, cursor, idx, FALSE)
    ELSE IF Unwrap(idx) >= Len(history) THEN Panic(cmd, cursor, idx)
    ELSE LET word == history[Unwrap(idx) + 1]
         IN  Emit(Edit(word, Len(word), idx, TRUE),
                  clear_line \o PromptText \o word)

\* history_prev wrapping from the oldest entry to the newest
history_prev_wraps ==
    history_restore(
        IF IsSome(history_idx)
        THEN IF Unwrap(history_idx) = 0 THEN Some(Len(history) - 1)
             ELSE Some(Unwrap(history_idx) - 1)
        ELSE IF Len(history) = 0 THEN None
             ELSE Some(Len(history) - 1))

\* history_prev entering the history one past its newest entry
history_prev_past_end ==
    history_restore(
        IF IsSome(history_idx)
        THEN IF Unwrap(history_idx) = 0 THEN Some(0)
             ELSE Some(Unwrap(history_idx) - 1)
        ELSE IF Len(history) = 0 THEN None
             ELSE Some(Len(history)))

\* Cli::history_prev
history_prev ==
    history_restore(
        IF IsSome(history_idx)
        THEN IF Unwrap(history_idx) = 0 THEN Some(0)
             ELSE Some(Unwrap(history_idx) - 1)
        ELSE IF Len(history) = 0 THEN None
             ELSE Some(Len(history) - 1))

\* history_next staying on the newest entry instead of leaving the history
history_next_clamped ==
    history_restore(
        IF IsSome(history_idx)
        THEN IF Unwrap(history_idx) + 1 < Len(history)
             THEN Some(Unwrap(history_idx) + 1)
             ELSE history_idx
        ELSE None)

\* Cli::history_next
history_next ==
    history_restore(
        IF IsSome(history_idx)
        THEN IF Unwrap(history_idx) + 1 < Len(history)
             THEN Some(Unwrap(history_idx) + 1)
             ELSE None
        ELSE None)

\* Cli::cursor_reset
cursor_reset == Emit(Edit(cmd, 0, history_idx, FALSE), Left(cursor))

\* Cli::cursor_left
cursor_left ==
    IF cursor > 0 THEN Emit(Edit(cmd, cursor - 1, history_idx, FALSE), Left(1))
    ELSE Same

\* cursor_right without its test against the length
cursor_right_unclamped == Edit(cmd, cursor + 1, history_idx, FALSE)

\* Cli::cursor_right
cursor_right ==
    IF cursor < Len(cmd) THEN Emit(Edit(cmd, cursor + 1, history_idx, FALSE), Right(1))
    ELSE Same

\* Cli::addchar
addchar(c) ==
    IF ~IsCharBoundary(cmd, cursor) THEN Panic(cmd, cursor, history_idx)
    ELSE LET right == SliceFrom(cmd, cursor)
         IN  Emit(Edit(InsertAt(cmd, cursor, Utf8(c)), cursor + 1, history_idx, FALSE),
                  IF cursor < Len(cmd)
                  THEN Utf8(c) \o right \o Left(Len(right))
                  ELSE Utf8(c))

\* backspace without the decrement of the cursor
backspace_keeps_cursor ==
    IF cursor = 0 THEN Same
    ELSE Edit(RemoveAt(cmd, cursor - 1), cursor, history_idx, FALSE)

\* Cli::backspace
backspace ==
    IF cursor = 0 THEN Same
    ELSE IF ~IsCharBoundary(cmd, cursor) THEN Panic(cmd, cursor, history_idx)
    ELSE IF cursor - 1 >= Len(cmd) \/ ~IsCharBoundary(cmd, cursor - 1)
         THEN Panic(cmd, cursor - 1, history_idx)
    ELSE LET right == SliceFrom(cmd, cursor)
         IN  Emit(Edit(RemoveAt(cmd, cursor - 1), cursor - 1, history_idx, FALSE),
                  <<8>> \o right \o <<SPACE>> \o Left(Len(right) + 1))

\* suppr testing cursor < len instead of cursor + 1 < len
suppr_to_end(c) ==
    IF c /= TILDE THEN Same
    ELSE IF cursor < Len(cmd)
         THEN Edit(RemoveAt(cmd, cursor), cursor, history_idx, FALSE)
    ELSE Same

\* Cli::suppr, c being the byte it reads after ESC [ 3
suppr(c) ==
    IF c /= TILDE THEN Emit(Same, Note)
    ELSE IF cursor + 1 < Len(cmd)
         THEN IF ~IsCharBoundary(cmd, cursor + 1) \/ ~IsCharBoundary(cmd, cursor)
              THEN Panic(cmd, cursor, history_idx)
              ELSE LET right == SliceFrom(cmd, cursor + 1)
                   IN  Emit(Edit(RemoveAt(cmd, cursor), cursor, history_idx, FALSE),
                            right \o <<SPACE>> \o Left(Len(right) + 1))
    ELSE Same

\* eol keeping only the line just entered
eol_keeps_last ==
    LET args == cmd2args(cmd)
    IN  [args |-> args,
         history |-> IF args[1] /= <<>> THEN <<cmd>> ELSE history,
         out |-> <<LF>>]

\* eol pushing the line whatever its first token
eol_always_push ==
    [args |-> cmd2args(cmd), history |-> Append(history, cmd), out |-> <<LF>>]

\* Cli::eol: the tokens it returns and the history it leaves
eol ==
    LET args == cmd2args(cmd)
    IN  [args |-> args,
         history |-> IF args[1] /= <<>> THEN Append(history, cmd) ELSE history,
         out |-> <<LF>>]

(***************************************************************************)
(* common_chars and Cli::autocomplete.                                     *)
(***************************************************************************)
\* the loop of common_chars: how many leading chars agree
RECURSIVE CommonCount(_, _)
CommonCount(lcs, rcs) ==
    IF lcs = <<>> \/ rcs = <<>> THEN 0
    ELSE IF Head(lcs) /= Head(rcs) THEN 0
    ELSE 1 + CommonCount(Tail(lcs), Tail(rcs))

\* common_chars slicing one char short
common_chars_short(lstr, rstr) ==
    LET common == CommonCount(Chars(lstr), Chars(rstr))
        n == IF common > 0 THEN common - 1 ELSE 0
    IN  [panicked |-> ~IsCharBoundary(lstr, n), str |-> SliceTo(lstr, n)]

\* common_chars: &lstr[0..common], common being a count of chars
common_chars(lstr, rstr) ==
    LET common == CommonCount(Chars(lstr), Chars(rstr))
    IN  [panicked |-> ~IsCharBoundary(lstr, common), str |-> SliceTo(lstr, common)]

\* the fold of autocomplete over words[i..], from common
RECURSIVE CommonFold(_, _, _)
CommonFold(words, i, common) ==
    IF i > Len(words) THEN [panicked |-> FALSE, str |-> common]
    ELSE LET r == common_chars(words[i], common)
         IN  IF r.panicked THEN r ELSE CommonFold(words, i + 1, r.str)

\* autocomplete's display of the candidates: each word and a space
RECURSIVE WordsLine(_)
WordsLine(words) ==
    IF words = <<>> THEN <<>>
    ELSE Head(words) \o <<SPACE>> \o WordsLine(Tail(words))

\* Cli::autocomplete
autocomplete(words) ==
    IF words = <<>> THEN Same
    ELSE LET common == CommonFold(words, 1, words[1])
             args == cmd2args(cmd)
             lastarg == args[Len(args)]
         IN  IF common.panicked THEN Panic(cmd, cursor, history_idx)
             ELSE IF Len(lastarg) > Len(common.str)
                     \/ ~IsCharBoundary(common.str, Len(lastarg))
                  THEN Panic(cmd, cursor, history_idx)
             ELSE LET complete == SliceFrom(common.str, Len(lastarg))
                  IN  Emit(Edit(cmd \o complete, cursor + Len(complete),
                                history_idx, Len(words) /= 1),
                           IF Len(words) = 1 THEN complete
                           ELSE <<LF>> \o WordsLine(words) \o <<LF>>
                                \o PromptText \o cmd \o complete)

(***************************************************************************)
(* The program: Cli::new, the caller's loop, getaction byte by byte,       *)
(* autocomplete, drop.                                                     *)
(*                                                                         *)
(* pc: "start"     before Cli::new                                         *)
(*     "noterm"    Cli::new returned Err, there is no Cli                  *)
(*     "idle"      the caller holds the Cli, between two getaction calls   *)
(*     "Normal"    getaction awaits a byte in its loop                     *)
(*     "SawEscape" escape awaits the byte after ESC                        *)
(*     "SawCsi"    escape awaits the selector after ESC [                  *)
(*     "SawCsi3"   suppr awaits the byte after ESC [ 3                     *)
(*     "failed"    a read failed, the Err travels up through the caller    *)
(*     "panicked"  a panic unwinds the caller                              *)
(*     "closed"    the Cli has been dropped                                *)
(***************************************************************************)
ReadingPcs == {"Normal", "SawEscape", "SawCsi", "SawCsi3"}
AlivePcs == ReadingPcs \cup {"idle"}

\* the c_lflag bits Cli::new clears
RawOff == {"ECHO", "ECHONL", "ICANON"}

\* Cli::new saving the attributes after it has cleared the bits
New_saves_modified ==
    /\ pc = "start"
    /\ saved_termios' = term \ RawOff
    /\ term' = term \ RawOff
    /\ do_reset' = TRUE
    /\ cmd' = <<>>
    /\ cursor' = 0
    /\ history' = <<>>
    /\ history_idx' = None
    /\ pc' = "idle"
    /\ UNCHANGED <<action, prompted, restores, restore_err>>

\* Cli::new
New ==
    /\ pc = "start"
    /\ saved_termios' = term
    /\ term' = term \ RawOff
    /\ do_reset' = TRUE
    /\ cmd' = <<>>
    /\ cursor' = 0
    /\ history' = <<>>
    /\ history_idx' = None
    /\ pc' = "idle"
    /\ UNCHANGED <<action, prompted, restores, restore_err>>

\* Cli::new when Termios::from_fd or tcsetattr fails
NewFail ==
    /\ pc = "start"
    /\ pc' = "noterm"
    /\ UNCHANGED <<term, saved_termios, cli, action, prompted, restores, restore_err>>

\* an editing operation's result written back, the read loop going on
ApplyEdit(e) ==
    /\ cmd' = e.cmd
    /\ cursor' = e.cursor
    /\ history_idx' = e.history_idx
    /\ prompted' = e.prompted
    /\ pc' = IF e.panicked THEN "panicked" ELSE "Normal"
    /\ UNCHANGED <<term, saved_termios, do_reset, history, action, restores, restore_err>>

\* the read loop moving to pc p without touching the Cli
Goto(p) ==
    /\ pc' = p
    /\ prompted' = FALSE
    /\ UNCHANGED <<term, saved_termios, cli, action, restores, restore_err>>

\* the caller calls getaction: the reset on entry, up to the first read
GetAction ==
    /\ pc = "idle"
    /\ IF do_reset
       THEN /\ cmd' = reset.cmd
            /\ cursor' = reset.cursor
            /\ history_idx' = reset.history_idx
            /\ prompted' = reset.prompted
       ELSE /\ UNCHANGED <<cmd, cursor, history_idx>>
            /\ prompted' = FALSE
    /\ do_reset' = FALSE
    /\ pc' = "Normal"
    /\ action' = NoAction
    /\ UNCHANGED <<term, saved_termios, history, restores, restore_err>>

\* getaction returns a to the caller
Return(a) ==
    /\ action' = a
    /\ pc' = "idle"
    /\ prompted' = FALSE

\* getaction, the b'\n' arm
ReadEnter ==
    /\ do_reset' = TRUE
    /\ history' = eol.history
    /\ Return(Command(eol.args))
    /\ UNCHANGED <<term, saved_termios, cmd, cursor, history_idx, restores, restore_err>>

\* the b'\t' arm setting do_reset as the b'\n' arm does
ReadTab_sets_reset ==
    /\ do_reset' = TRUE
    /\ Return(AutoComplete(cmd2args(cmd)))
    /\ UNCHANGED <<term, saved_termios, cmd, cursor, history, history_idx,
                   restores, restore_err>>

\* getaction, the b'\t' arm
ReadTab ==
    /\ Return(AutoComplete(cmd2args(cmd)))
    /\ UNCHANGED <<term, saved_termios, cli, restores, restore_err>>

\* getaction: byte c read in the loop
ReadNormal(c) ==
    /\ pc = "Normal"
    /\ CASE c \in {SOH, STX} -> ApplyEdit(cursor_reset)
         [] c = ESC -> Goto("SawEscape")
         [] c = DEL -> ApplyEdit(backspace)
         [] c = LF -> ReadEnter
         [] c = TAB -> ReadTab
         [] OTHER -> ApplyEdit(addchar(c))

\* escape taking a newline after ESC for the Enter key
ReadEscape_returns_on_newline(c) ==
    /\ pc = "SawEscape"
    /\ IF c = LF THEN ReadEnter
       ELSE IF c /= LBRACKET THEN Goto("Normal") ELSE Goto("SawCsi")

\* escape: byte c read after ESC
ReadEscape(c) ==
    /\ pc = "SawEscape"
    /\ IF c /= LBRACKET THEN Goto("Normal") ELSE Goto("SawCsi")

\* escape: selector c read after ESC [
ReadCsi(c) ==
    /\ pc = "SawCsi"
    /\ CASE c = SEL_SUPPR -> Goto("SawCsi3")
         [] c = SEL_UP -> ApplyEdit(history_prev)
         [] c = SEL_DOWN -> ApplyEdit(history_next)
         [] c = SEL_RIGHT -> ApplyEdit(cursor_right)
         [] c = SEL_LEFT -> ApplyEdit(cursor_left)
         [] OTHER -> ApplyEdit(Emit(Same, Note))

\* suppr: byte c read after ESC [ 3
ReadSuppr(c) ==
    /\ pc = "SawCsi3"
    /\ ApplyEdit(suppr(c))

\* read_u8 fails: getaction returns Err and the caller's ? hands it on
ReadError ==
    /\ pc \in ReadingPcs
    /\ action' = ReadErr
    /\ pc' = "failed"
    /\ prompted' = FALSE
    /\ UNCHANGED <<term, saved_termios, cli, restores, restore_err>>

\* the caller calls autocomplete(words)
AutoCompleteCall(words) ==
    /\ pc = "idle"
    /\ LET e == autocomplete(words)
       IN  /\ cmd' = e.cmd
           /\ cursor' = e.cursor
           /\ prompted' = e.prompted
           /\ pc' = IF e.panicked THEN "panicked" ELSE "idle"
    /\ UNCHANGED <<term, saved_termios, do_reset, history, history_idx, action,
                   restores, restore_err>>

\* drop, as the caller's scope ends: the loop is left, an Err is returned,
\* or a panic unwinds; ok is whether tcsetattr succeeds.  The String and the
\* Vec go with the Cli; saved_termios stays as the record of what tcsetattr
\* was given.
Drop(ok) ==
    /\ pc \in {"idle", "failed", "panicked"}
    /\ restores' = restores + 1
    /\ IF ok
       THEN term' = saved_termios /\ UNCHANGED restore_err
       ELSE restore_err' = TRUE /\ UNCHANGED term
    /\ pc' = "closed"
    /\ prompted' = FALSE
    /\ do_reset' = FALSE
    /\ cmd' = <<>>
    /\ cursor' = 0
    /\ history' = <<>>
    /\ history_idx' = None
    /\ UNCHANGED <<saved_termios, action>>

(***************************************************************************)
(* The environment: what the terminal is set to before the program runs,   *)
(* the bytes it sends and the candidate lists the caller passes.           *)
(***************************************************************************)
\* c_lflag as the shell usually leaves it, and with ECHONL set as well
UsualAttrs == {"ECHO", "ICANON", "ISIG"}
InitialAttrs == {UsualAttrs, UsualAttrs \cup {"ECHONL"}}

\* bytes typed as text: a letter and the space; or a letter and a byte
\* above 0x7F, which the String holds as two bytes
TypedBytes == {97, SPACE}
WideTypedBytes == {97, 233}

ControlKeys == {SOH, STX, ESC, DEL, LF, TAB}
EscapeKeys == {LBRACKET, LF, TAB}
CsiKeys == {SEL_SUPPR, SEL_UP, SEL_DOWN, SEL_RIGHT, SEL_LEFT, LF, TAB}
SupprKeys == {TILDE, LF, TAB}

\* candidate lists: "aa"; "a","aa"; "a ","aa"
WordLists == {<<>>, <<<<97, 97>>>>, <<<<97>>, <<97, 97>>>>, <<<<97, SPACE>>, <<97, 97>>>>}

InitFrom(attrs) ==
    /\ term \in attrs
    /\ saved_termios = {}
    /\ do_reset = FALSE
    /\ cmd = <<>>
    /\ cursor = 0
    /\ history = <<>>
    /\ history_idx = None
    /\ pc = "start"
    /\ action = NoAction
    /\ prompted = FALSE
    /\ restores = 0
    /\ restore_err = FALSE
    /\ screen = BlankScreen
    /\ nav = <<>>

Init == InitFrom({UsualAttrs})

\* the guards that keep the text and the history within the bounds
FitsText(c) == c \in ControlKeys \/ Len(cmd) + Len(Utf8(c)) <= MaxLen
FitsHistory(c) == c /= LF \/ Len(eol.history) <= MaxHist

NextOver(typed) ==
    \/ New /\ UNCHANGED <<screen, nav>>
    \/ NewFail /\ UNCHANGED <<screen, nav>>
    \/ GetAction /\ UNCHANGED <<screen, nav>>
    \/ \E c \in ControlKeys \cup typed :
          FitsText(c) /\ FitsHistory(c) /\ ReadNormal(c) /\ UNCHANGED <<screen, nav>>
    \/ \E c \in EscapeKeys : ReadEscape(c) /\ UNCHANGED <<screen, nav>>
    \/ \E c \in CsiKeys : ReadCsi(c) /\ UNCHANGED <<screen, nav>>
    \/ \E c \in SupprKeys : ReadSuppr(c) /\ UNCHANGED <<screen, nav>>
    \/ ReadError /\ UNCHANGED <<screen, nav>>
    \/ \E words \in WordLists :
          /\ Len(autocomplete(words).cmd) <= MaxLen
          /\ AutoCompleteCall(words)
          /\ UNCHANGED <<screen, nav>>
    \/ \E ok \in BOOLEAN : Drop(ok) /\ UNCHANGED <<screen, nav>>

Next == NextOver(TypedBytes)

Spec == Init /\ [][Next]_vars

NextWide == NextOver(WideTypedBytes)

SpecWide == Init /\ [][NextWide]_vars

\* Rust runs drop when the scope that owns the Cli ends: once an Err or a
\* panic travels up through main, drop is not put off for ever
FairSpec ==
    /\ InitFrom(InitialAttrs)
    /\ [][Next]_vars
    /\ WF_vars(\E ok \in BOOLEAN : Drop(ok) /\ UNCHANGED <<screen, nav>>)

(***************************************************************************)
(* History navigation on its own: the read loop is in Normal state with a  *)
(* history of 1..MaxHist submitted lines and some text being edited, and   *)
(* the terminal sends k times Up (ESC [ A) and then k times Down           *)
(* (ESC [ B).  nav holds k, the number of bytes sent so far and the text   *)
(* at the start.                                                           *)
(***************************************************************************)
NavEntries == {<<97>>, <<97, 97>>, <<97, SPACE, 97>>}
NavHistories == UNION {[1..n -> NavEntries] : n \in 1..MaxHist}
NavTexts == {<<>>, <<97>>, <<SPACE, 97>>, <<97, 97>>}

InitNav ==
    /\ saved_termios = UsualAttrs
    /\ term = UsualAttrs \ RawOff
    /\ do_reset = FALSE
    /\ cmd \in NavTexts
    /\ cursor \in 0..Len(cmd)
    /\ history \in NavHistories
    /\ history_idx = None
    /\ pc = "Normal"
    /\ action = NoAction
    /\ prompted = FALSE
    /\ restores = 0
    /\ restore_err = FALSE
    /\ screen = BlankScreen
    /\ \E k \in 1..Len(history) : nav = [k |-> k, pos |-> 0, text0 |-> cmd]

\* byte j of the 6k bytes
NavKeyAt(k, j) ==
    IF (j - 1) % 3 = 0 THEN ESC
    ELSE IF (j - 1) % 3 = 1 THEN LBRACKET
    ELSE IF j <= 3 * k THEN SEL_UP
    ELSE SEL_DOWN

NavKey == NavKeyAt(nav.k, nav.pos + 1)

NavAdvance ==
    /\ nav.pos < 6 * nav.k
    /\ nav' = [nav EXCEPT !.pos = @ + 1]
    /\ UNCHANGED screen

NextNav ==
    \/ NavAdvance /\ ReadNormal(NavKey)
    \/ NavAdvance /\ ReadEscape(NavKey)
    \/ NavAdvance /\ ReadCsi(NavKey)

SpecNav == InitNav /\ [][NextNav]_vars

(***************************************************************************)
(* Completion on its own: the caller holds an AutoComplete action for a    *)
(* line and calls autocomplete with a candidate list, any number of        *)
(* times.                                                                  *)
(***************************************************************************)
Hello == <<104, 101, 108, 108, 111>>
Help == <<104, 101, 108, 112>>
Upper == <<117, 112, 112, 101, 114>>
Exit == <<101, 120, 105, 116>>

\* "", h, he, hel, "a he", "he ", "h (quote open), h\ (escape open), x
CompleteBuffers ==
    {<<>>, <<104>>, <<104, 101>>, <<104, 101, 108>>, <<97, SPACE, 104, 101>>,
     <<104, 101, SPACE>>, <<QUOTE, 104>>, <<104, BACKSLASH>>, <<120>>}

\* among them the list of hello.rs, candidates holding a space or a quote,
\* and the two-byte char U+00E9
CompleteLists ==
    {<<>>, <<Hello>>, <<Hello, Help>>, <<Help, Hello>>, <<<<104, 101>>>>,
     <<<<104, SPACE, 101>>>>, <<<<104, 101, QUOTE>>, <<104, 101, QUOTE, 120>>>>,
     <<Hello, Upper, Exit, Help>>, <<Utf8(233)>>}

InitComplete ==
    /\ saved_termios = UsualAttrs
    /\ term = UsualAttrs \ RawOff
    /\ do_reset = FALSE
    /\ cmd \in CompleteBuffers
    /\ cursor \in 0..Len(cmd)
    /\ history = <<>>
    /\ history_idx = None
    /\ pc = "idle"
    /\ action = AutoComplete(cmd2args(cmd))
    /\ prompted = FALSE
    /\ restores = 0
    /\ restore_err = FALSE
    /\ screen = BlankScreen
    /\ nav = <<>>

NextComplete ==
    \E words \in CompleteLists :
        /\ Len(autocomplete(words).cmd) <= MaxCompleteLen
        /\ AutoCompleteCall(words)
        /\ UNCHANGED <<screen, nav>>

SpecComplete == InitComplete /\ [][NextComplete]_vars

(***************************************************************************)
(* The common prefix on its own: the line is empty, so that the tail       *)
(* autocomplete appends is the whole result of its fold, and autocomplete  *)
(* is called once with a candidate list of one to MaxWords words.          *)
(***************************************************************************)
\* a, ab, b, hello, help and the two-byte char U+00E9
PrefixWords == {<<97>>, <<97, 98>>, <<98>>, Hello, Help, Utf8(233)}

PrefixLists == UNION {[1..n -> PrefixWords] : n \in 1..MaxWords}

InitPrefix ==
    /\ saved_termios = UsualAttrs
    /\ term = UsualAttrs \ RawOff
    /\ do_reset = FALSE
    /\ cmd = <<>>
    /\ cursor = 0
    /\ history = <<>>
    /\ history_idx = None
    /\ pc = "idle"
    /\ action = AutoComplete(cmd2args(<<>>))
    /\ prompted = FALSE
    /\ restores = 0
    /\ restore_err = FALSE
    /\ screen = BlankScreen
    /\ \E words \in PrefixLists : nav = [words |-> words, done |-> FALSE]

NextPrefix ==
    /\ ~nav.done
    /\ AutoCompleteCall(nav.words)
    /\ nav' = [nav EXCEPT !.done = TRUE]
    /\ UNCHANGED screen

SpecPrefix == InitPrefix /\ [][NextPrefix]_vars

(***************************************************************************)
(* The tokenizer on its own: getaction awaits a byte with a line already   *)
(* typed, and reads Enter or Tab, which both return cmd2args of the line.  *)
(***************************************************************************)
\* a letter, the space, the double quote, the backslash
TokenAlphabet == {97, SPACE, QUOTE, BACKSLASH}

\* a\ b, "a b" c, a followed by two spaces and b
TokenExamples ==
    {<<97, BACKSLASH, SPACE, 98>>, <<QUOTE, 97, SPACE, 98, QUOTE, SPACE, 99>>,
     <<97, SPACE, SPACE, 98>>}

TokenTexts ==
    TokenExamples \cup UNION {[1..n -> TokenAlphabet] : n \in 0..MaxTokLen}

InitTokens ==
    /\ saved_termios = UsualAttrs
    /\ term = UsualAttrs \ RawOff
    /\ do_reset = FALSE
    /\ cmd \in TokenTexts
    /\ cursor = Len(cmd)
    /\ history = <<>>
    /\ history_idx = None
    /\ pc = "Normal"
    /\ action = NoAction
    /\ prompted = FALSE
    /\ restores = 0
    /\ restore_err = FALSE
    /\ screen = BlankScreen
    /\ nav = <<>>

NextTokens ==
    \/ ReadNormal(LF) /\ UNCHANGED <<screen, nav>>
    \/ ReadNormal(TAB) /\ UNCHANGED <<screen, nav>>

SpecTokens == InitTokens /\ [][NextTokens]_vars

(***************************************************************************)
(* The display followed: the program of hello.rs with its terminal, fed    *)
(* the keys that edit the line (no malformed sequence, no read error),     *)
(* autocomplete being called when getaction has returned AutoComplete.     *)
(* A run is followed up to the first state in which the display and the    *)
(* line differ: what the program does afterwards depends on neither.       *)
(***************************************************************************)
\* s without its trailing blanks, which show as empty cells do
RECURSIVE RStrip(_)
RStrip(s) ==
    IF s /= <<>> /\ s[Len(s)] = SPACE THEN RStrip(SubSeq(s, 1, Len(s) - 1)) ELSE s

\* the line being edited is what the terminal shows
DisplayInSync ==
    /\ RStrip(screen.line) = RStrip(PromptText \o cmd)
    /\ screen.col = Len(PromptText) + cursor

\* the states in which a line is being edited
Editing == pc \in ReadingPcs \/ (pc = "idle" /\ action.kind = "AutoComplete")


\* the terminal receives bytes, in a run followed so far
Shows(bytes) ==
    /\ Editing => DisplayInSync
    /\ screen' = Render(screen, bytes)
    /\ UNCHANGED nav

\* what ReadNormal(c) writes
OutNormal(c) ==
    CASE c \in {SOH, STX} -> cursor_reset.out
      [] c = DEL -> backspace.out
      [] c = LF -> eol.out
      [] c \in {ESC, TAB} -> <<>>
      [] OTHER -> addchar(c).out

\* what ReadCsi(c) writes
OutCsi(c) ==
    CASE c = SEL_SUPPR -> <<>>
      [] c = SEL_UP -> history_prev.out
      [] c = SEL_DOWN -> history_next.out
      [] c = SEL_RIGHT -> cursor_right.out
      [] c = SEL_LEFT -> cursor_left.out
      [] OTHER -> Note

EditSelectors == {SEL_SUPPR, SEL_UP, SEL_DOWN, SEL_RIGHT, SEL_LEFT}

NextScreen ==
    \/ New /\ Shows(<<>>)
    \/ GetAction /\ Shows(IF do_reset THEN reset.out ELSE <<>>)
    \/ \E c \in ControlKeys \cup TypedBytes :
          FitsText(c) /\ FitsHistory(c) /\ ReadNormal(c) /\ Shows(OutNormal(c))
    \/ ReadEscape(LBRACKET) /\ Shows(<<>>)
    \/ \E c \in EditSelectors : ReadCsi(c) /\ Shows(OutCsi(c))
    \/ ReadSuppr(TILDE) /\ Shows(suppr(TILDE).out)
    \/ \E words \in WordLists :
          /\ action.kind = "AutoComplete"
          /\ Len(autocomplete(words).cmd) <= MaxLen
          /\ AutoCompleteCall(words)
          /\ Shows(autocomplete(words).out)

SpecScreen == Init /\ [][NextScreen]_vars

PcValues == AlivePcs \cup {"start", "noterm", "failed", "panicked", "closed"}

(***************************************************************************)
(* What the properties below are stated with.                              *)
(***************************************************************************)
\* s without its element at index i, counted from 0
DropIndex(s, i) == [k \in 1..(Len(s) - 1) |-> IF k <= i THEN s[k] ELSE s[k + 1]]

\* the first and the last token of a line
FirstToken(text) == cmd2args(text)[1]
LastToken(text) == cmd2args(text)[Len(cmd2args(text))]

(***************************************************************************)
(* C1: in every reachable state, whatever bytes were read (bytes above     *)
(* 0x7F included) and whatever candidate lists autocomplete was given,     *)
(* 0 <= cursor <= len(text).                                               *)
(***************************************************************************)
C1_CursorInBuffer == cursor >= 0 /\ cursor <= Len(cmd)

\* a recalled line holding a two-byte char, the cursor inside that char
C1_Witness ==
    /\ pc = "Normal"
    /\ IsSome(history_idx)
    /\ Len(cmd) = MaxLen
    /\ cursor = 2
    /\ ~IsCharBoundary(cmd, cursor)

(***************************************************************************)
(* C3: once Cli::new has succeeded, every way out (the caller stops, a     *)
(* read error travels up, a panic unwinds) passes through drop exactly     *)
(* once; drop hands tcsetattr the attributes the terminal had when         *)
(* Cli::new ran, so the terminal gets exactly them back unless tcsetattr   *)
(* fails; that failure is reported and the program ends as it does         *)
(* otherwise.                                                              *)
(***************************************************************************)
C3_RestoreOnce ==
    /\ [](pc \in AlivePcs \cup {"failed", "panicked"} => restores = 0 /\ ~restore_err)
    /\ [](pc = "closed" => restores = 1 /\ (~restore_err => term = saved_termios))
    /\ [][pc = "start" /\ pc' = "idle" => saved_termios' = term]_vars
    /\ [][pc /= "start" => saved_termios' = saved_termios]_vars
    /\ [][~restore_err /\ restore_err' => pc' = "closed" /\ term' = term]_vars
    /\ (pc \in {"failed", "panicked"} ~> pc = "closed")

\* closed after a read error, the terminal back to attributes with ECHONL set
C3_Witness ==
    /\ pc = "closed"
    /\ action = ReadErr
    /\ restores = 1
    /\ ~restore_err
    /\ term = {"ECHO", "ECHONL", "ICANON", "ISIG"}

(***************************************************************************)
(* C4: Enter read in Normal state returns Command(tokenize(text)); the     *)
(* history gets the raw text appended as one entry when the first token    *)
(* is non-empty and is unchanged otherwise; every history entry has a      *)
(* non-empty first token.                                                  *)
(***************************************************************************)
C4_Enter ==
    /\ [][ReadNormal(LF) =>
            /\ pc' = "idle"
            /\ action' = Command(cmd2args(cmd))
            /\ history' = IF FirstToken(cmd) /= <<>>
                          THEN Append(history, cmd)
                          ELSE history]_vars
    /\ [](\A i \in 1..Len(history) : FirstToken(history[i]) /= <<>>)

\* "a" followed by two spaces was submitted: stored with both spaces
C4_Witness ==
    /\ pc = "idle"
    /\ action = Command(<<<<97>>, <<>>, <<>>>>)
    /\ history = <<<<97, SPACE, SPACE>>>>

(***************************************************************************)
(* C5: Tab read in Normal state returns AutoComplete(tokenize(text)) and   *)
(* leaves text, cursor, history, history position and do_reset as they     *)
(* were; the getaction call that follows goes on with the same line,       *)
(* clearing nothing and printing no prompt.                                *)
(***************************************************************************)
C5_Tab ==
    /\ [][ReadNormal(TAB) =>
            /\ pc' = "idle"
            /\ action' = AutoComplete(cmd2args(cmd))
            /\ UNCHANGED <<cmd, cursor, history, history_idx, do_reset>>]_vars
    /\ [][GetAction /\ action.kind = "AutoComplete" =>
            /\ pc' = "Normal"
            /\ ~prompted'
            /\ UNCHANGED <<cmd, cursor, history, history_idx>>]_vars

\* Tab was pressed on a recalled line, the cursor inside the line
C5_Witness ==
    /\ pc = "idle"
    /\ action.kind = "AutoComplete"
    /\ Len(action.args) = 2
    /\ IsSome(history_idx)
    /\ cursor = 1
    /\ Len(cmd) = 3

(***************************************************************************)
(* C6: do_reset is set from construction to the first getaction call and   *)
(* from a return of Command to the next call, and at no other time; a      *)
(* call entered with it set clears the text, zeroes the cursor, clears     *)
(* the history position, prints the prompt and clears the flag before the  *)
(* first read, and keeps the history.                                      *)
(***************************************************************************)
C6_Reset ==
    /\ [](pc \in AlivePcs \cup {"failed"} =>
            (do_reset <=> pc = "idle" /\ action.kind \in {"None", "Command"}))
    /\ [][GetAction /\ do_reset =>
            /\ pc' = "Normal"
            /\ cmd' = <<>>
            /\ cursor' = 0
            /\ history_idx' = None
            /\ prompted'
            /\ ~do_reset'
            /\ history' = history]_vars
    /\ [][GetAction /\ ~do_reset => ~prompted' /\ UNCHANGED cli]_vars

\* the line after two submitted commands, the second a recalled one
C6_Witness ==
    /\ pc = "Normal"
    /\ prompted
    /\ cmd = <<>>
    /\ cursor = 0
    /\ history_idx = None
    /\ Len(history) = 2

(***************************************************************************)
(* C7: ESC [ 3 ~ removes the character at the cursor whenever there is     *)
(* one (cursor < len), the last character included, and leaves the cursor. *)
(***************************************************************************)
C7_DeleteAtCursor ==
    [][ReadSuppr(TILDE) /\ cursor < Len(cmd) =>
            cmd' = DropIndex(cmd, cursor) /\ cursor' = cursor]_vars

(***************************************************************************)
(* C8: ESC [ 3 ~ with cursor >= len - 1 (the end of the text and the last  *)
(* character) changes neither text nor cursor; with cursor < len - 1 it    *)
(* removes the character at the cursor and leaves the cursor.              *)
(***************************************************************************)
C8_DeleteForward ==
    [][ReadSuppr(TILDE) =>
            /\ pc' = "Normal"
            /\ IF cursor >= Len(cmd) - 1
               THEN UNCHANGED <<cmd, cursor>>
               ELSE cmd' = DropIndex(cmd, cursor) /\ cursor' = cursor]_vars

\* ESC [ 3 read with the cursor on the last character of a full line
C8_Witness ==
    /\ pc = "SawCsi3"
    /\ Len(cmd) = 3
    /\ cursor = Len(cmd) - 1

(***************************************************************************)
(* C9: backspace with the cursor at 0 changes neither text nor cursor;     *)
(* with the cursor at p > 0 it removes the character at index p - 1,       *)
(* keeps the others in order and moves the cursor to p - 1.                *)
(***************************************************************************)
C9_Backspace ==
    [][ReadNormal(DEL) =>
            /\ pc' = "Normal"
            /\ IF cursor = 0
               THEN UNCHANGED <<cmd, cursor>>
               ELSE cmd' = DropIndex(cmd, cursor - 1) /\ cursor' = cursor - 1]_vars

\* a line of a letter, a space and a letter, the cursor after the space
C9_Witness ==
    /\ pc = "Normal"
    /\ cmd = <<97, SPACE, 97>>
    /\ cursor = 2

(***************************************************************************)
(* C2, as amended: from position None, k times Up and then k times Down    *)
(* (1 <= k <= number of entries) leave the position None and the text      *)
(* equal to the newest history entry.                                      *)
(***************************************************************************)
C2_NavEndsOnNewest ==
    nav.pos = 6 * nav.k =>
        /\ pc = "Normal"
        /\ history_idx = None
        /\ cmd = history[Len(history)]

\* C2 as stated: ... leave the position None and the text as it was before
\* the navigation started.
C2_NavRoundTrip ==
    nav.pos = 6 * nav.k => history_idx = None /\ cmd = nav.text0

\* two Up and two Down were read and the text is not what it was
C2_Witness ==
    /\ nav.k = 2
    /\ nav.pos = 6 * nav.k
    /\ history_idx = None
    /\ cmd /= nav.text0

(***************************************************************************)
(* C10: autocomplete with no candidate changes nothing.  With candidates   *)
(* that all start with the line's last token it appends the part of their  *)
(* longest common prefix beyond the last token's length and moves the      *)
(* cursor on by that length, for one candidate and for several; "he" with  *)
(* ["hello"] becomes "hello" with the cursor at 5; afterwards the last     *)
(* token of the line equals the common prefix.                             *)
(***************************************************************************)
IsPrefix(p, s) == Len(p) <= Len(s) /\ SubSeq(s, 1, Len(p)) = p

\* the longest string that is a prefix of every word
LCP(words) ==
    LET w == words[1]
        ks == {k \in 0..Len(w) :
                 \A i \in 1..Len(words) : IsPrefix(SubSeq(w, 1, k), words[i])}
    IN  SubSeq(w, 1, CHOOSE k \in ks : \A j \in ks : j <= k)

AllStartWith(words, t) == \A i \in 1..Len(words) : IsPrefix(t, words[i])

Completes(words) ==
    IF words = <<>> THEN pc' = "idle" /\ UNCHANGED <<cmd, cursor>>
    ELSE AllStartWith(words, LastToken(cmd)) =>
            LET ext == SliceFrom(LCP(words), Len(LastToken(cmd)))
            IN  /\ pc' = "idle"
                /\ cmd' = cmd \o ext
                /\ cursor' = cursor + Len(ext)
                /\ LastToken(cmd') = LCP(words)

C10_Complete ==
    /\ [][\A words \in CompleteLists :
            AutoCompleteCall(words) => Completes(words)]_vars
    /\ [][AutoCompleteCall(<<Hello>>) /\ cmd = <<104, 101>> /\ cursor = 2 =>
            cmd' = Hello /\ cursor' = 5]_vars

(***************************************************************************)
(* C11: for every non-empty candidate list, the fold of common_chars from  *)
(* the first candidate yields the longest common prefix: a prefix of every *)
(* candidate, no longer string being one; hence whatever the order of the  *)
(* candidates.                                                             *)
(***************************************************************************)
\* p is a prefix of every word
CommonPrefix(p, words) == \A i \in 1..Len(words) : IsPrefix(p, words[i])

\* p is a common prefix and no longer string is: a longer one would be a
\* longer prefix of the first word
LongestCommonPrefix(p, words) ==
    /\ CommonPrefix(p, words)
    /\ \A k \in (Len(p) + 1)..Len(words[1]) :
           IsCharBoundary(words[1], k) => ~CommonPrefix(SliceTo(words[1], k), words)

C11_FoldIsLCP ==
    nav.done => pc = "idle" /\ LongestCommonPrefix(cmd, nav.words)

(***************************************************************************)
(* C12, as amended: the common prefix of ["hello", "help"] is "hel", and   *)
(* the common prefix of ["a"] is "a".                                      *)
(***************************************************************************)
PrefixIs(words, p) == nav.done /\ nav.words = words => pc = "idle" /\ cmd = p

C12_HelloHelp ==
    /\ PrefixIs(<<Hello, Help>>, <<104, 101, 108>>)
    /\ PrefixIs(<<<<97>>>>, <<97>>)

\* C12 as stated: the common prefix of ["hello", "help"] is "he".
C12_HelloHelpStated ==
    /\ PrefixIs(<<Hello, Help>>, <<104, 101>>)
    /\ PrefixIs(<<<<97>>>>, <<97>>)

\* the fold has run over ["hello", "help"]
C12_Witness ==
    /\ nav.done
    /\ nav.words = <<Hello, Help>>
    /\ cmd = <<104, 101, 108>>

(***************************************************************************)
(* C13: over the alphabet {letter, space, double quote, backslash},        *)
(* cmd2args returns a non-empty token list equal to the reference scan: a  *)
(* character after an unescaped backslash is kept literally, an unescaped  *)
(* double quote toggles quoting and is dropped, a space that is neither    *)
(* escaped nor quoted ends the token, any other character is kept.  The    *)
(* list has one token more than there are spaces neither escaped nor       *)
(* inside quotes.  a\ b gives ["a b"], "a b" c gives ["a b", "c"], the     *)
(* empty line gives [""], a followed by two spaces and b gives             *)
(* ["a", "", "b"].                                                         *)
(***************************************************************************)
\* the character at index i (from 1) follows a backslash that is not itself
\* escaped
RECURSIVE IsEscaped(_, _)
IsEscaped(t, i) == i > 1 /\ t[i - 1] = BACKSLASH /\ ~IsEscaped(t, i - 1)

\* an odd number of unescaped double quotes lies before index i
InQuotes(t, i) ==
    Cardinality({j \in 1..(i - 1) : t[j] = QUOTE /\ ~IsEscaped(t, j)}) % 2 = 1

\* the spaces that end a token
SplitSpaces(t) ==
    {i \in 1..Len(t) : t[i] = SPACE /\ ~IsEscaped(t, i) /\ ~InQuotes(t, i)}

\* the character at index i goes into a token
IsKept(t, i) ==
    \/ IsEscaped(t, i)
    \/ t[i] \notin {BACKSLASH, QUOTE} /\ i \notin SplitSpaces(t)

\* the kept characters of t[lo..hi]
RECURSIVE KeptIn(_, _, _)
KeptIn(t, lo, hi) ==
    IF lo > hi THEN <<>>
    ELSE (IF IsKept(t, lo) THEN <<t[lo]>> ELSE <<>>) \o KeptIn(t, lo + 1, hi)

\* the tokens of t from index lo on
RECURSIVE RefTokensFrom(_, _)
RefTokensFrom(t, lo) ==
    LET later == {i \in SplitSpaces(t) : i >= lo}
    IN  IF later = {} THEN <<KeptIn(t, lo, Len(t))>>
        ELSE LET s == CHOOSE i \in later : \A j \in later : i <= j
             IN  <<KeptIn(t, lo, s - 1)>> \o RefTokensFrom(t, s + 1)

RefTokens(t) == RefTokensFrom(t, 1)

\* the line t was tokenized into toks
TokensOf(t, toks) == pc = "idle" /\ cmd = t => action.args = toks

C13_Tokenize ==
    /\ pc = "idle" =>
          /\ action.kind \in {"Command", "AutoComplete"}
          /\ action.args = RefTokens(cmd)
          /\ Len(action.args) >= 1
          /\ Len(action.args) = 1 + Cardinality(SplitSpaces(cmd))
    /\ TokensOf(<<97, BACKSLASH, SPACE, 98>>, <<<<97, SPACE, 98>>>>)
    /\ TokensOf(<<QUOTE, 97, SPACE, 98, QUOTE, SPACE, 99>>,
                <<<<97, SPACE, 98>>, <<99>>>>)
    /\ TokensOf(<<>>, <<<<>>>>)
    /\ TokensOf(<<97, SPACE, SPACE, 98>>, <<<<97>>, <<>>, <<98>>>>)

\* Tab was read after "a b" c
C13_Witness ==
    /\ pc = "idle"
    /\ cmd = <<QUOTE, 97, SPACE, 98, QUOTE, SPACE, 99>>
    /\ action = AutoComplete(<<<<97, SPACE, 98>>, <<99>>>>)

(***************************************************************************)
(* C14: after every completed edit operation (insert, backspace,           *)
(* delete-forward, cursor left and right, home, history restore,           *)
(* completion), whatever the cursor position when it started, the          *)
(* terminal's line shows the prompt followed by the text and the           *)
(* terminal's cursor is at column len(prompt) + cursor.                    *)
(***************************************************************************)
C14_DisplayInSync == Editing => DisplayInSync

(***************************************************************************)
(* C15: a malformed escape sequence (ESC and a byte other than [, ESC [    *)
(* and an unknown selector, ESC [ 3 and a byte other than ~) takes its own *)
(* bytes and no more, leaves text, cursor, history and history position    *)
(* as they were, makes getaction return nothing, even when the byte        *)
(* dropped is 0x0A or 0x09, and leaves the decoder in Normal state.        *)
(***************************************************************************)
\* the step reads the last byte of a malformed sequence
MalformedEnd ==
    \/ \E c \in EscapeKeys \ {LBRACKET} : ReadEscape(c)
    \/ \E c \in CsiKeys \ EditSelectors : ReadCsi(c)
    \/ \E c \in SupprKeys \ {TILDE} : ReadSuppr(c)

C15_MalformedDropped ==
    /\ [][MalformedEnd =>
            /\ pc' = "Normal"
            /\ action' = NoAction
            /\ UNCHANGED <<cmd, cursor, history, history_idx, do_reset>>]_vars
    /\ [](pc \in ReadingPcs => action = NoAction)

\* ESC [ 3 has been read on a recalled line, the cursor on its first of two
\* characters
C15_Witness ==
    /\ pc = "SawCsi3"
    /\ IsSome(history_idx)
    /\ Len(cmd) = 2
    /\ cursor = 0

(***************************************************************************)
(* C16: history-previous from None moves to the newest entry, or changes   *)
(* nothing when the history is empty; from Some(0) it stays at Some(0);    *)
(* from Some(i), i > 0, it moves to Some(i - 1).  Whenever the resulting   *)
(* position is Some(j), the text becomes entries[j] and the cursor its     *)
(* length.                                                                 *)
(***************************************************************************)
C16_HistoryPrev ==
    [][ReadCsi(SEL_UP) =>
         /\ pc' = "Normal"
         /\ history' = history
         /\ history_idx = None /\ history = <<>> =>
               UNCHANGED <<cmd, cursor, history_idx>>
         /\ history_idx = None /\ history /= <<>> =>
               history_idx' = Some(Len(history) - 1)
         /\ history_idx = Some(0) => history_idx' = Some(0)
         /\ IsSome(history_idx) /\ history_idx /= Some(0) =>
               history_idx' = Some(Unwrap(history_idx) - 1)
         /\ IsSome(history_idx') =>
               /\ cmd' = history[Unwrap(history_idx') + 1]
               /\ cursor' = Len(cmd')]_vars

\* ESC [ read on the oldest of two entries, its recalled text edited since
C16_Witness ==
    /\ pc = "SawCsi"
    /\ history_idx = Some(0)
    /\ Len(history) = 2
    /\ cmd /= history[1]

(***************************************************************************)
(* C17: history-next from the newest entry sets the position to None and   *)
(* leaves the text, edited or not, and the cursor as they are; from None   *)
(* it changes nothing.                                                     *)
(***************************************************************************)
C17_HistoryNextAtNewest ==
    [][ReadCsi(SEL_DOWN) =>
         /\ pc' = "Normal"
         /\ IsSome(history_idx) /\ Unwrap(history_idx) = Len(history) - 1 =>
               history_idx' = None /\ UNCHANGED <<cmd, cursor>>
         /\ history_idx = None => UNCHANGED <<cmd, cursor, history_idx>>]_vars

\* ESC [ read on the newest of two entries, its recalled text edited since
\* and the cursor before its end
C17_Witness ==
    /\ pc = "SawCsi"
    /\ Len(history) = 2
    /\ history_idx = Some(1)
    /\ cmd /= history[2]
    /\ cursor < Len(cmd)

(***************************************************************************)
(* C18: any byte other than 0x01, 0x02, 0x1B, 0x7F, 0x0A and 0x09 read in  *)
(* Normal state is inserted as one character at the cursor: with the       *)
(* cursor at p the text becomes text[0..p] + c + text[p..], one character  *)
(* longer, and the cursor p + 1.  Text and length are taken in characters, *)
(* the reading under which an insertion of a byte above 0x7F can hold.     *)
(***************************************************************************)
C18_InsertAnyByte ==
    [][\A c \in WideTypedBytes :
          ReadNormal(c) =>
              LET cs == Chars(cmd)
                  p == cursor
              IN  /\ pc' = "Normal"
                  /\ Chars(cmd') = SubSeq(cs, 1, p) \o <<Utf8(c)>>
                                      \o SubSeq(cs, p + 1, Len(cs))
                  /\ Len(Chars(cmd')) = Len(cs) + 1
                  /\ cursor' = p + 1]_vars

(***************************************************************************)
(* C19: in every reachable state the history position is None or Some(i)   *)
(* with i below the number of entries, also after Enter has appended an    *)
(* entry during a recall and before the next reset.                        *)
(***************************************************************************)
C19_HistoryIdxInRange ==
    history_idx = None \/ Unwrap(history_idx) \in 0..(Len(history) - 1)

\* Enter was read on the recalled oldest entry: the history has grown, the
\* position is still Some(0), the reset is yet to come
C19_Witness ==
    /\ pc = "idle"
    /\ do_reset
    /\ action.kind = "Command"
    /\ history_idx = Some(0)
    /\ Len(history) = 2

(***************************************************************************)
(* C20: the history only grows at its end: no operation removes, reorders  *)
(* or rewrites an entry, editing a recalled line never changes the entry   *)
(* it came from, and only Enter changes the history, by appending at most  *)
(* one entry.  (The history goes with the Cli when it is dropped.)         *)
(***************************************************************************)
C20_HistoryAppendOnly ==
    [][pc' /= "closed" =>
         \/ history' = history
         \/ /\ ReadNormal(LF)
            /\ history' = Append(history, cmd)]_vars

\* a recalled line has been edited, two entries stored
C20_Witness ==
    /\ pc = "Normal"
    /\ Len(history) = 2
    /\ IsSome(history_idx)
    /\ cmd /= history[Unwrap(history_idx) + 1]
    /\ Len(cmd) > Len(history[Unwrap(history_idx) + 1])

====
